---- MODULE Spec2Model ----
(***************************************************************************)
(* Music Finder Bot: the instruction parser (InstructionParser.parse), the *)
(* catalog client (SheetMusicAPI) and the interactive loop                 *)
(* (interactive_bot.main), as state machines.                              *)
(*                                                                         *)
(* Text is a sequence of one-character strings, so that the regular        *)
(* expressions and string methods of the program are computed position by  *)
(* position.  A fixed text the program only copies (a canned title, a      *)
(* source name) is a sequence holding that text as one piece.              *)
(***************************************************************************)
EXTENDS Integers, Sequences, FiniteSets, TLC

VARIABLES
    pc,            \* position of the control flow
    instruction,   \* the instruction text being processed
    params,        \* the SearchParameters record of the current instruction
    reparsed,      \* SearchParameters parsed back from the structured query part
    api_type,      \* SheetMusicAPI.api_type
    api_key,       \* SheetMusicAPI.api_key
    REQUESTS_AVAILABLE,  \* whether the requests library could be imported
    calls,         \* the remote calls the current call of search has issued
    page_titles,   \* the candidate titles of the search response
    page_data,     \* the pages of the detail response that were mapped to records
    results,       \* the records search returned
    raised,        \* the exception that left search, None when it returned
    diagnostics,   \* the diagnostics the current call of search has printed
    line,          \* what the last input() gave: a text, "EOF" or None before any
    prompts,       \* number of times the loop has asked for input
    processed,     \* number of instructions handed to process_instruction
    reported,      \* number of "Error:" reports of the loop
    interrupted,   \* whether a KeyboardInterrupt has arrived
    result         \* the dictionary a caller keeps of its last process_instruction

vars == <<pc, instruction, params, reparsed, api_type, api_key, REQUESTS_AVAILABLE,
          calls, page_titles, page_data, results, raised, diagnostics, line, prompts,
          processed, reported, interrupted, result>>

parse_vars == <<instruction, params, reparsed>>

api_vars == <<api_type, api_key, REQUESTS_AVAILABLE>>

search_vars == <<calls, page_titles, page_data, results, raised, diagnostics>>

loop_vars == <<line, prompts, processed, reported, interrupted, result>>

----------------------------------------------------------------------------
(* Bounds of the model *)

\* number of text fragments an enumerated instruction is made of, at most
MaxFrags == 3

\* number of candidates a search response holds, at most
MaxTitles == 6

\* number of pages a detail response holds, at most
MaxPages == 2

\* number of times the interactive loop asks for input, at most
MaxPrompts == 3

\* number of instructions one MusicFinderBot is given
MaxInstructions == 2

----------------------------------------------------------------------------
(* Characters and str methods *)

\* Python's None (Optional[str] fields); distinct from every text
None == <<"<None>">>

UpperLetters ==
    <<"A","B","C","D","E","F","G","H","I","J","K","L","M",
      "N","O","P","Q","R","S","T","U","V","W","X","Y","Z">>

LowerLetters ==
    <<"a","b","c","d","e","f","g","h","i","j","k","l","m",
      "n","o","p","q","r","s","t","u","v","w","x","y","z">>

Digits == {"0","1","2","3","4","5","6","7","8","9"}

\* \w of the re module: letters, digits and the underscore
WordChars ==
    {UpperLetters[i] : i \in 1..26} \cup {LowerLetters[i] : i \in 1..26}
        \cup Digits \cup {"_"}

\* \s of the re module, and what str.strip and str.split take as blank
Whitespace == {" ", "\t"}

QUOTE == "\""

ToLower == [c \in {UpperLetters[i] : i \in 1..26} |->
               LowerLetters[CHOOSE i \in 1..26 : UpperLetters[i] = c]]

ToUpper == [c \in {LowerLetters[i] : i \in 1..26} |->
               UpperLetters[CHOOSE i \in 1..26 : LowerLetters[i] = c]]

lower_char(c) == IF c \in DOMAIN ToLower THEN ToLower[c] ELSE c

upper_char(c) == IF c \in DOMAIN ToUpper THEN ToUpper[c] ELSE c

\* str.lower
str_lower(s) == [i \in 1..Len(s) |-> lower_char(s[i])]

\* str.upper
str_upper(s) == [i \in 1..Len(s) |-> upper_char(s[i])]

\* str.strip
str_strip(s) ==
    LET keep == {i \in 1..Len(s) : s[i] \notin Whitespace}
    IN  IF keep = {} THEN <<>>
        ELSE SubSeq(s, CHOOSE i \in keep : \A j \in keep : i <= j,
                       CHOOSE i \in keep : \A j \in keep : i >= j)

\* pat starts at position i of s
MatchAt(pat, s, i) ==
    /\ i >= 1
    /\ i + Len(pat) - 1 <= Len(s)
    /\ \A k \in 1..Len(pat) : s[i + k - 1] = pat[k]

\* sub in s (str.__contains__)
str_contains(sub, s) == \E i \in 1..(Len(s) + 1) : MatchAt(sub, s, i)

\* the number of consecutive characters of s from position j on that are in
\* the class (inside) or out of it (~inside): a greedy repetition of a
\* character class or of its complement; j <= Len(s) + 1
RunLen(s, j, class, inside) ==
    CHOOSE k \in 0..(Len(s) - j + 1) :
        /\ \A x \in j..(j + k - 1) : (s[x] \in class) = inside
        /\ (j + k > Len(s) \/ (s[j + k] \in class) # inside)

RECURSIVE str_join(_, _)
\* sep.join(parts)
str_join(sep, parts) ==
    IF Len(parts) = 0 THEN <<>>
    ELSE IF Len(parts) = 1 THEN parts[1]
    ELSE parts[1] \o sep \o str_join(sep, Tail(parts))

RECURSIVE str_replace(_, _, _)
\* s.replace(old, new), old not empty
str_replace(s, old, new) ==
    IF Len(s) = 0 THEN <<>>
    ELSE IF MatchAt(old, s, 1)
         THEN new \o str_replace(SubSeq(s, Len(old) + 1, Len(s)), old, new)
         ELSE <<s[1]>> \o str_replace(Tail(s), old, new)

\* s.split(): the maximal runs of non-blank characters, in order
str_split(s) ==
    LET starts == {i \in 1..Len(s) :
                      s[i] \notin Whitespace /\ (i = 1 \/ s[i - 1] \in Whitespace)}
    IN  [k \in 1..Cardinality(starts) |->
            CHOOSE w \in {SubSeq(s, i, i + RunLen(s, i, Whitespace, FALSE) - 1) :
                             i \in {n \in starts :
                                       Cardinality({m \in starts : m < n}) = k - 1}} :
                TRUE]

----------------------------------------------------------------------------
(* The re module, for the patterns the program uses *)

IsWordAt(s, i) == i >= 1 /\ i <= Len(s) /\ s[i] \in WordChars

\* \b between positions i-1 and i
WordBoundary(s, i) == IsWordAt(s, i - 1) # IsWordAt(s, i)

\* re_search_word with the two \b left out of the pattern
re_search_word_unanchored(lit, s, ignorecase) ==
    LET p == IF ignorecase THEN str_lower(lit) ELSE lit
        t == IF ignorecase THEN str_lower(s) ELSE s
    IN  \E i \in 1..Len(t) : MatchAt(p, t, i)

\* re.search(r'\b<lit>\b', s), with re.IGNORECASE when ignorecase
re_search_word(lit, s, ignorecase) ==
    LET p == IF ignorecase THEN str_lower(lit) ELSE lit
        t == IF ignorecase THEN str_lower(s) ELSE s
    IN  \E i \in 1..Len(t) :
            /\ WordBoundary(t, i)
            /\ MatchAt(p, t, i)
            /\ WordBoundary(t, i + Len(p))

\* re.search(r'<lit>', s), with re.IGNORECASE when ignorecase
re_search_literal(lit, s, ignorecase) ==
    LET p == IF ignorecase THEN str_lower(lit) ELSE lit
        t == IF ignorecase THEN str_lower(s) ELSE s
    IN  str_contains(p, t)

\* the loop over a pattern table (a dict, in insertion order) that stops at
\* the first match: the value of the first of the entries that match (hits
\* holds their indices), None when there is none
FirstMatch(table, hits) ==
    IF hits = {} THEN None
    ELSE table[CHOOSE k \in hits : \A h \in hits : k <= h][2]

str_for == <<"f","o","r">>

\* the group of r'for\s+(\w+)[:.]' matched at position i (IGNORECASE), or None;
\* with spaced, of r'for\s+(\w+)\s*\.'
EnsembleAt(s, i, spaced) ==
    LET j == i + 3
        ws == RunLen(s, j, Whitespace, TRUE)
        wd == RunLen(s, j + ws, WordChars, TRUE)
        e == j + ws + wd
        sp == IF spaced THEN RunLen(s, e, Whitespace, TRUE) ELSE 0
    IN  IF /\ MatchAt(str_for, str_lower(s), i)
           /\ ws >= 1
           /\ wd >= 1
           /\ e + sp <= Len(s)
           /\ IF spaced THEN s[e + sp] = "." ELSE s[e] \in {":", "."}
        THEN SubSeq(s, j + ws, e - 1)
        ELSE None

\* re.search of the ensemble pattern: the group of the leftmost match, or None
re_search_ensemble(s, spaced) ==
    LET hits == {i \in 1..Len(s) : EnsembleAt(s, i, spaced) # None}
    IN  IF hits = {} THEN None
        ELSE EnsembleAt(s, CHOOSE i \in hits : \A h \in hits : i <= h, spaced)

RECURSIVE findall_quoted(_, _)
\* re.findall(r'"([^"]+)"', s), scanning from position i (i <= Len(s) + 1):
\* q is the next quote, n the length of the run of other characters after it
findall_quoted(s, i) ==
    LET q == i + RunLen(s, i, {QUOTE}, FALSE)
        n == RunLen(s, q + 1, {QUOTE}, FALSE)
    IN  IF q > Len(s) THEN <<>>
        ELSE IF n >= 1 /\ q + n + 1 <= Len(s)
             THEN <<SubSeq(s, q + 1, q + n)>> \o findall_quoted(s, q + n + 2)
             ELSE findall_quoted(s, q + 1)

----------------------------------------------------------------------------
(* InstructionParser *)

SATB == <<"S","A","T","B">>
TB == <<"T","B">>
TTBB == <<"T","T","B","B">>
SSA == <<"S","S","A">>
SSAA == <<"S","S","A","A">>
SAB == <<"S","A","B">>

\* each pattern is r'\b<text>\b'; the text is listed
VOICING_PATTERNS ==
    << <<SATB, SATB>>,
       <<TB, TB>>,
       <<TTBB, TTBB>>,
       <<SSA, SSA>>,
       <<SSAA, SSAA>>,
       <<SAB, SAB>>,
       << <<"t","e","n","o","r","-","b","a","s","s">>, TB>>,
       << <<"t","e","n","o","r"," ","b","a","s","s">>, TB>>,
       << <<"T","e","n","o","r","-","B","a","s","s">>, TB>>,
       << <<"T","e","n","o","r"," ","B","a","s","s">>, TB>> >>

beginning == <<"b","e","g","i","n","n","i","n","g">>
intermediate == <<"i","n","t","e","r","m","e","d","i","a","t","e">>
advanced == <<"a","d","v","a","n","c","e","d">>

\* each pattern is r'\b<text>\b'
SKILL_LEVEL_PATTERNS ==
    << <<beginning, beginning>>,
       << <<"b","e","g","i","n","n","e","r">>, beginning>>,
       <<intermediate, intermediate>>,
       <<advanced, advanced>>,
       << <<"e","m","e","r","g","i","n","g">>, beginning>> >>

SpringEarth == <<"S","p","r","i","n","g"," ","E","a","r","t","h">>
Earth == <<"E","a","r","t","h">>
Spring == <<"S","p","r","i","n","g">>

\* THEME_PATTERNS with the shorter phrases listed first
THEME_PATTERNS_short_first ==
    << <<Earth, Earth>>,
       <<Spring, Spring>>,
       <<SpringEarth, SpringEarth>>,
       << <<"E","a","r","t","h"," ","t","h","e","m","e">>, Earth>> >>

THEME_PATTERNS ==
    << <<SpringEarth, SpringEarth>>,
       << <<"E","a","r","t","h"," ","t","h","e","m","e">>, Earth>>,
       <<Earth, Earth>>,
       <<Spring, Spring>> >>

overtone_singing == <<"o","v","e","r","t","o","n","e"," ","s","i","n","g","i","n","g">>

choir == <<"c","h","o","i","r">>
choral == <<"c","h","o","r","a","l">>
piece == <<"p","i","e","c","e">>
pieces == <<"p","i","e","c","e","s">>

\* important_keywords with the plural left out
important_keywords_singular == <<choir, choral, piece>>

important_keywords == <<choir, choral, piece, pieces>>

\* SearchParameters(): every field unset, additional_keywords the empty list
\* SearchParameters whose list is not a new one: every record shares the list
\* of the record made before
SearchParameters_shared_list ==
    [voicing |-> None, theme |-> None, technique |-> None, skill_level |-> None,
     ensemble_name |-> None, additional_keywords |-> params.additional_keywords]

SearchParameters ==
    [voicing |-> None, theme |-> None, technique |-> None, skill_level |-> None,
     ensemble_name |-> None, additional_keywords |-> <<>>]

\* is x an element of the list
InList(x, list) == \E k \in 1..Len(list) : list[k] = x

RECURSIVE AppendKeywords(_, _, _)
\* the loop over important_keywords, from entry k on
AppendKeywords(keywords, instruction_lower, k) ==
    IF k > Len(important_keywords) THEN keywords
    ELSE IF /\ str_contains(important_keywords[k], instruction_lower)
            /\ ~InList(important_keywords[k], keywords)
         THEN AppendKeywords(Append(keywords, important_keywords[k]),
                             instruction_lower, k + 1)
         ELSE AppendKeywords(keywords, instruction_lower, k + 1)

ParseVoicing(text) ==
    FirstMatch(VOICING_PATTERNS,
               {k \in 1..Len(VOICING_PATTERNS) :
                   re_search_word(VOICING_PATTERNS[k][1], text, TRUE)})

ParseSkillLevel(text) ==
    FirstMatch(SKILL_LEVEL_PATTERNS,
               {k \in 1..Len(SKILL_LEVEL_PATTERNS) :
                   re_search_word(SKILL_LEVEL_PATTERNS[k][1], str_lower(text), FALSE)})

ParseTheme(text) ==
    FirstMatch(THEME_PATTERNS,
               {k \in 1..Len(THEME_PATTERNS) :
                   re_search_literal(THEME_PATTERNS[k][1], text, TRUE)})

ParseTechnique(text) ==
    IF re_search_literal(overtone_singing, str_lower(text), FALSE)
    THEN overtone_singing ELSE None

ParseEnsemble(text) ==
    LET first == re_search_ensemble(text, FALSE)
    IN  IF first # None /\ first # <<>> THEN first
        ELSE re_search_ensemble(text, TRUE)

ParseKeywords(text) ==
    AppendKeywords(SearchParameters.additional_keywords \o findall_quoted(text, 1),
                   str_lower(text), 1)

\* InstructionParser.parse
parse(text) ==
    [voicing |-> ParseVoicing(text),
     theme |-> ParseTheme(text),
     technique |-> ParseTechnique(text),
     skill_level |-> ParseSkillLevel(text),
     ensemble_name |-> ParseEnsemble(text),
     additional_keywords |-> ParseKeywords(text)]

----------------------------------------------------------------------------
(* SheetMusicAPI: query construction *)

\* a value counts as set when it is neither None nor the empty text (truthiness)
Truthy(x) == x # None /\ x # <<>>

\* x or default
OrElse(x, default) == IF Truthy(x) THEN x ELSE default

SPACE == <<" ">>

\* "".join(query_parts) instead
QuerySeparator_none == <<>>

\* the separator of " ".join(query_parts)
QuerySeparator == SPACE

\* the parts of the query that come from voicing, theme and technique
StructuredParts(p) ==
    (IF Truthy(p.voicing) THEN <<p.voicing>> ELSE <<>>)
        \o (IF Truthy(p.theme) THEN <<p.theme>> ELSE <<>>)
        \o (IF Truthy(p.technique) THEN <<p.technique>> ELSE <<>>)

\* query_parts of build_search_query
QueryParts(p) ==
    StructuredParts(p)
        \o (IF Truthy(p.skill_level) THEN <<p.skill_level \o <<" ">> \o choir>> ELSE <<>>)
        \o (IF Truthy(p.ensemble_name) THEN <<p.ensemble_name>> ELSE <<>>)
        \o p.additional_keywords
        \o << <<"s","h","e","e","t"," ","m","u","s","i","c">>,
              <<"c","h","o","r","a","l"," ","p","i","e","c","e">>,
              <<"c","h","o","r","a","l"," ","m","u","s","i","c">> >>

\* SheetMusicAPI.build_search_query
build_search_query(p) == str_join(QuerySeparator, QueryParts(p))

\* the voicing/theme/technique portion of the query string
StructuredQuery(p) == str_join(QuerySeparator, StructuredParts(p))

skip_words ==
    << <<"s","h","e","e","t">>, <<"m","u","s","i","c">>, choral, piece, pieces, choir >>

\* the techniques _cpdl_search leaves out of the catalog search
RareTechniques == << overtone_singing >>

\* [w for w in words if w.lower() not in skip_words]
MeaningfulWords(words) ==
    SelectSeq(words, LAMBDA w : ~InList(str_lower(w), skip_words))

\* the structured search terms of _cpdl_search: voicing, theme, technique
CpdlStructuredTerms(p) ==
    (IF Truthy(p.voicing) THEN <<p.voicing>> ELSE <<>>)
        \o (IF Truthy(p.theme)
            THEN <<str_strip(str_replace(p.theme, <<"S","p","r","i","n","g"," ">>, <<>>))>>
            ELSE <<>>)
        \o (IF Truthy(p.technique) /\ ~InList(str_lower(p.technique), RareTechniques)
            THEN <<p.technique>> ELSE <<>>)

\* search_terms of _cpdl_search
CpdlSearchTerms(query, p) ==
    LET terms == CpdlStructuredTerms(p)
        meaningful_words == MeaningfulWords(str_split(query))
    IN  IF terms # <<>> THEN terms
        ELSE SubSeq(meaningful_words, 1,
                    IF Len(meaningful_words) < 3 THEN Len(meaningful_words) ELSE 3)

\* search_query of _cpdl_search
CpdlSearchQuery(query, p) == str_join(SPACE, CpdlSearchTerms(query, p))

----------------------------------------------------------------------------
(* SheetMusicAPI: the canned results *)

str_None == <<"N","o","n","e">>

\* str(x)
py_str(x) == IF x = None THEN str_None ELSE x

MockOvertoneRecord ==
    [title |-> <<"Singing in Tune with Nature">>,
     composer |-> <<"Amanda Cole">>,
     voicing |-> SATB,
     technique |-> <<"Overtone singing / Microtonal just intonation">>,
     theme |-> <<"Nature/Earth">>,
     description |-> <<"SATB choral work utilizing microtonal just intonation tuning, creating shimmering clouds of lush overtones">>,
     source |-> <<"N.E.O. Voice Festival 2020">>,
     difficulty |-> <<"Advanced">>]

MockEarthRecord(p) ==
    [title |-> <<"For the Beauty of the Earth">>,
     composer |-> <<"John Rutter">>,
     voicing |-> TTBB,
     theme |-> Earth,
     description |-> <<"Celebrates the beauty of the natural world, available in TTBB arrangement">>,
     source |-> <<"Various publishers">>,
     difficulty |-> OrElse(p.skill_level, <<"Intermediate">>)]

MockBeginningRecord ==
    [title |-> <<"First Songs for Emerging Tenor-Bass Choir">>,
     composer |-> <<"Mark Patterson (arr.)">>,
     voicing |-> TB,
     theme |-> <<"Nature/Earth">>,
     description |-> <<"Collection for emerging tenor-bass choirs including 'Come Sail Away with Me,' 'A Future Shared,' and 'Gloucester Moors'">>,
     source |-> <<"Carl Fischer">>,
     difficulty |-> <<"Beginning">>]

MockGenericRecord(p) ==
    [title |-> <<"Choral Piece - ">> \o OrElse(p.voicing, <<"Mixed">>),
     composer |-> <<"Various">>,
     voicing |-> OrElse(p.voicing, <<"Mixed">>),
     theme |-> OrElse(p.theme, <<"General">>),
     description |-> <<"Sheet music matching: ">> \o OrElse(p.voicing, <<>>) \o SPACE
                        \o OrElse(p.theme, <<>>) \o SPACE \o OrElse(p.technique, <<>>),
     source |-> <<"Music database">>,
     difficulty |-> OrElse(p.skill_level, <<"Various">>)]

\* the records of the special cases of _mock_search, before the generic one
MockSpecialRecords(p) ==
    (IF /\ p.voicing = SATB
        /\ Truthy(p.theme)
        /\ str_contains(<<"o","v","e","r","t","o","n","e">>, str_lower(py_str(p.technique)))
     THEN <<MockOvertoneRecord>> ELSE <<>>)
        \o (IF p.voicing = TB /\ Truthy(p.theme) /\ str_contains(Earth, p.theme)
            THEN <<MockEarthRecord(p)>>
                     \o (IF p.skill_level = beginning THEN <<MockBeginningRecord>> ELSE <<>>)
            ELSE <<>>)

\* SheetMusicAPI._mock_search
mock_search(p) ==
    IF MockSpecialRecords(p) = <<>> THEN <<MockGenericRecord(p)>>
    ELSE MockSpecialRecords(p)

----------------------------------------------------------------------------
(* SheetMusicAPI: mapping a catalog page to a record *)

Unknown == <<"U","n","k","n","o","w","n">>

CPDL_SOURCE == <<"CPDL (Choral Public Domain Library)">>

\* page identifier of a page that does not exist
NO_PAGE == <<"-","1">>

\* length after which the description is cut
DescriptionLimit == 200

\* [A-Z]
UpperChars == DOMAIN ToLower

\* [a-z]
LowerChars == DOMAIN ToUpper

RECURSIVE NameEnd(_, _)
\* the position after the greedy (?:\s+[A-Z][a-z]+)* that starts at position e
NameEnd(s, e) ==
    LET ws == RunLen(s, e, Whitespace, TRUE)
        lw == RunLen(s, e + ws + 1, LowerChars, TRUE)
    IN  IF ws >= 1 /\ e + ws <= Len(s) /\ s[e + ws] \in UpperChars /\ lw >= 1
        THEN NameEnd(s, e + ws + 1 + lw)
        ELSE e

\* group(1) or group(2) of the composer pattern matched at position i, or None:
\* r'\(([^)]+)\)|by\s+([A-Z][a-z]+(?:\s+[A-Z][a-z]+)*)'
ComposerAt(s, i) ==
    LET n == RunLen(s, i + 1, {")"}, FALSE)
        ws == RunLen(s, i + 2, Whitespace, TRUE)
        st == i + 2 + ws
        lw == RunLen(s, st + 1, LowerChars, TRUE)
    IN  IF s[i] = "(" /\ n >= 1 /\ i + n + 1 <= Len(s)
        THEN SubSeq(s, i + 1, i + n)
        ELSE IF /\ MatchAt(<<"b","y">>, s, i)
                /\ ws >= 1
                /\ st <= Len(s)
                /\ s[st] \in UpperChars
                /\ lw >= 1
             THEN SubSeq(s, st, NameEnd(s, st + 1 + lw) - 1)
             ELSE None

\* the composer of a title: the leftmost match of the pattern, else "Unknown"
ComposerOf(title) ==
    LET hits == {i \in 1..Len(title) : ComposerAt(title, i) # None}
    IN  IF hits = {} THEN Unknown
        ELSE ComposerAt(title, CHOOSE i \in hits : \A h \in hits : i <= h)

\* the alternatives of r'\b(SATB|TB|TTBB|SSA|SSAA|SAB|SA|TTB)\b', in order
\* EXTRACT_VOICINGS with the alternatives SA and TTB left out
EXTRACT_VOICINGS_parser_tags == <<SATB, TB, TTBB, SSA, SSAA, SAB>>

EXTRACT_VOICINGS ==
    <<SATB, TB, TTBB, SSA, SSAA, SAB, <<"S","A">>, <<"T","T","B">> >>

\* the alternatives that match at position i of the extract (IGNORECASE)
ExtractVoicingsAt(extract, i) ==
    IF ~WordBoundary(extract, i) THEN {}
    ELSE {k \in 1..Len(EXTRACT_VOICINGS) :
             /\ WordBoundary(extract, i + Len(EXTRACT_VOICINGS[k]))
             /\ MatchAt(str_lower(EXTRACT_VOICINGS[k]),
                        str_lower(SubSeq(extract, i, i + Len(EXTRACT_VOICINGS[k]) - 1)), 1)}

\* voicing_match.group(1).upper() of the leftmost match, None without a match
ExtractVoicing(extract) ==
    LET hits == {i \in 1..Len(extract) : ExtractVoicingsAt(extract, i) # {}}
        i == CHOOSE h \in hits : \A g \in hits : h <= g
        alts == ExtractVoicingsAt(extract, i)
        k == CHOOSE a \in alts : \A b \in alts : a <= b
    IN  IF hits = {} THEN None
        ELSE str_upper(SubSeq(extract, i, i + Len(EXTRACT_VOICINGS[k]) - 1))

\* urllib.parse.quote(c, safe=""), for the characters titles are made of here
QuoteChar(c) ==
    IF c \in WordChars \cup {".", "-", "~"} THEN <<c>>
    ELSE IF c = "(" THEN <<"%","2","8">>
    ELSE IF c = ")" THEN <<"%","2","9">>
    ELSE IF c = "," THEN <<"%","2","C">>
    ELSE <<"%", c>>

RECURSIVE url_quote(_)
url_quote(s) == IF s = <<>> THEN <<>> ELSE QuoteChar(Head(s)) \o url_quote(Tail(s))

\* page_url of a page
PageUrl(info, title) ==
    IF info.fullurl # None THEN info.fullurl
    ELSE <<"https://www.cpdl.org/wiki/index.php/">>
             \o url_quote(str_replace(title, SPACE, <<"_">>))

\* the voicing of a record built from a page
PageVoicing(extract, p) ==
    LET voicing_match == ExtractVoicing(extract)
    IN  IF ~Truthy(p.voicing) /\ voicing_match # None
        THEN voicing_match
        ELSE OrElse(p.voicing, Unknown)

\* the record built from one page of the detail response; a key the page lacks
\* is None here, and .get supplies the default
PageRecord(info, p) ==
    LET title == IF info.title = None THEN Unknown ELSE info.title
        extract == IF info.extract = None THEN <<>> ELSE info.extract
        base == [title |-> title,
                 composer |-> ComposerOf(title),
                 voicing |-> PageVoicing(extract, p),
                 theme |-> OrElse(p.theme, <<"General">>),
                 description |-> IF Len(extract) > DescriptionLimit
                                 THEN SubSeq(extract, 1, DescriptionLimit) \o <<".",".",".">>
                                 ELSE extract,
                 source |-> CPDL_SOURCE,
                 url |-> PageUrl(info, title),
                 difficulty |-> OrElse(p.skill_level, Unknown)]
    IN  IF Truthy(p.technique)
        THEN [f \in DOMAIN base \cup {"technique"} |->
                 IF f = "technique" THEN p.technique ELSE base[f]]
        ELSE base

----------------------------------------------------------------------------
(* The remote catalog: what a call can give back *)

\* subclasses of requests.exceptions.RequestException: timeout, connection
\* failure, non-success status (raise_for_status)
RequestExceptions == {"Timeout", "ConnectionError", "HTTPError"}

\* other subclasses of Exception raised while a response is processed
ProcessingExceptions == {"KeyError", "AttributeError"}

NoException == "NoException"

DigitChars == <<"1","2","3","4","5","6","7","8","9">>

\* the title of the k-th candidate of a search response
CandidateTitle(k) == <<"P","a","g","e"," ", DigitChars[k]>>

\* number of candidates the detail call asks for, at most
DetailBatch == 5

\* srlimit of the search call
SearchLimit == 10

\* the numbers of candidates of a search response: none, one, as many as the
\* detail call asks for, and more than that
TitleCounts == {0, 1, DetailBatch, MaxTitles}

\* responses to the search-by-terms call: an exception, a body without the
\* expected keys, an item without "title", or n candidates
SearchResponses ==
    {[kind |-> k, titles |-> <<>>] :
        k \in RequestExceptions \cup {"no_keys", "untitled_item"}}
        \cup {[kind |-> "ok", titles |-> [k \in 1..n |-> CandidateTitle(k)]] :
                 n \in TitleCounts}

LongExtract == [i \in 1..(DescriptionLimit + 1) |-> "x"]

\* the entries a detail response is made of: page id and page info
PageKinds ==
    { [page_id |-> NO_PAGE, is_object |-> TRUE,
       title |-> CandidateTitle(1), extract |-> None, fullurl |-> None],
      [page_id |-> <<"1","0","1">>, is_object |-> TRUE,
       title |-> <<"A","v","e"," ","M","a","r","i","a"," ","(","J","o","s","q","u","i","n",")">>,
       extract |-> <<"M","o","t","e","t"," ","f","o","r"," ","S","A","T","B">>,
       fullurl |-> <<"https://www.cpdl.org/wiki/index.php/Ave_Maria_(Josquin)">>],
      [page_id |-> <<"1","0","2">>, is_object |-> TRUE,
       title |-> <<"K","y","r","i","e"," ","b","y"," ","A","n","n","a"," ","L","e","e">>,
       extract |-> <<"T","B","D"," ","f","o","r"," ","s","a",","," ","T","T","B","B">>,
       fullurl |-> None],
      [page_id |-> <<"1","0","3">>, is_object |-> TRUE,
       title |-> None, extract |-> LongExtract, fullurl |-> None],
      [page_id |-> <<"1","0","4">>, is_object |-> FALSE,
       title |-> None, extract |-> None, fullurl |-> None] }

\* responses to the batch detail call
DetailResponses ==
    {[kind |-> k, pages |-> <<>>] : k \in RequestExceptions \cup {"no_keys"}}
        \cup {[kind |-> "ok", pages |-> ps] :
                 ps \in UNION {[1..n -> PageKinds] : n \in 0..MaxPages}}

----------------------------------------------------------------------------
(* SheetMusicAPI.search, step by step *)

\* page_titles_batch without the limit: every candidate is asked for
page_titles_batch_all(titles) == titles

\* page_titles[:5]: the candidates the detail call names
page_titles_batch(titles) ==
    SubSeq(titles, 1, IF Len(titles) < DetailBatch THEN Len(titles) ELSE DetailBatch)

\* CpdlHandler without the second clause, except Exception
CpdlHandler_requests_only(exc) ==
    IF exc \in RequestExceptions THEN "request_error" ELSE "uncaught"

\* the except clauses of _cpdl_search, in order: the diagnostic of the clause
\* that catches exc, "uncaught" when none does
CpdlHandler(exc) ==
    IF exc \in RequestExceptions THEN "request_error"
    ELSE IF exc \in ProcessingExceptions THEN "processing_error"
    ELSE "uncaught"

\* CpdlReturn that gives the empty list back when nothing was found
CpdlReturn_empty(found, p) == found

\* what _cpdl_search returns once the responses are processed: the records
\* found, or the canned results when there are none
CpdlReturn(found, p) == IF found = <<>> THEN mock_search(p) ELSE found

\* the pages of a detail response that are mapped: all but the nonexistent
MappedPages(pages) == SelectSeq(pages, LAMBDA pg : pg.page_id # NO_PAGE)

\* an exception leaves the try block of _cpdl_search
CpdlFails(exc) ==
    IF CpdlHandler(exc) = "uncaught"
    THEN /\ raised' = exc
         /\ pc' = "raised"
         /\ UNCHANGED <<results, diagnostics>>
    ELSE /\ results' = mock_search(params)
         /\ diagnostics' = Append(diagnostics, CpdlHandler(exc))
         /\ pc' = "print"
         /\ UNCHANGED raised

\* the try block of _cpdl_search ends with the records found
CpdlEnds(found) ==
    /\ results' = CpdlReturn(found, params)
    /\ diagnostics' = IF found = <<>> THEN Append(diagnostics, "no_results")
                      ELSE diagnostics
    /\ pc' = "print"
    /\ UNCHANGED raised

\* _web_search and _openai_search: the canned results, with a warning when
\* no credential is configured
StubSearch ==
    /\ results' = mock_search(params)
    /\ diagnostics' = IF ~Truthy(api_key) THEN <<"no_api_key">> ELSE <<>>

\* search is called: the query is built and the mode decides; in catalog mode
\* the search-by-terms call is issued
Search ==
    /\ pc = "search"
    /\ raised' = NoException
    /\ page_titles' = <<>>
    /\ page_data' = <<>>
    /\ LET query == build_search_query(params)
       IN  IF api_type = "cpdl" /\ REQUESTS_AVAILABLE
           THEN /\ calls' = << [request |-> "search",
                                srsearch |-> CpdlSearchQuery(query, params),
                                srlimit |-> SearchLimit, titles |-> <<>>] >>
                /\ pc' = "search_call"
                /\ diagnostics' = <<>>
                /\ UNCHANGED results
           ELSE /\ calls' = <<>>
                /\ pc' = "print"
                /\ IF api_type = "cpdl"
                   THEN /\ results' = mock_search(params)
                        /\ diagnostics' = <<"no_requests">>
                   ELSE IF api_type \in {"web_search", "openai"}
                   THEN StubSearch
                   ELSE /\ results' = mock_search(params)
                        /\ diagnostics' = <<>>
    /\ UNCHANGED <<parse_vars, api_vars, loop_vars>>

\* the search-by-terms call comes back
SearchCallReturns ==
    /\ pc = "search_call"
    /\ \E resp \in SearchResponses :
        IF resp.kind \in RequestExceptions
        THEN CpdlFails(resp.kind) /\ UNCHANGED <<calls, page_titles, page_data>>
        ELSE IF resp.kind = "untitled_item"
        THEN CpdlFails("KeyError") /\ UNCHANGED <<calls, page_titles, page_data>>
        ELSE IF resp.kind = "ok" /\ resp.titles # <<>>
        THEN LET batch == page_titles_batch(resp.titles)
             IN  /\ page_titles' = resp.titles
                 /\ calls' = Append(calls,
                                [request |-> "detail", srsearch |-> <<>>,
                                 srlimit |-> Len(batch),
                                 titles |-> str_join(<<"|">>, batch)])
                 /\ pc' = "detail_call"
                 /\ UNCHANGED <<page_data, results, raised, diagnostics>>
        ELSE CpdlEnds(<<>>) /\ UNCHANGED <<calls, page_titles, page_data>>
    /\ UNCHANGED <<parse_vars, api_vars, loop_vars>>

\* the batch detail call comes back and its pages are mapped to records
DetailCallReturns ==
    /\ pc = "detail_call"
    /\ \E resp \in DetailResponses :
        /\ page_data' = IF /\ resp.kind = "ok"
                            /\ \A k \in 1..Len(MappedPages(resp.pages)) :
                                   MappedPages(resp.pages)[k].is_object
                         THEN MappedPages(resp.pages) ELSE page_data
        /\ IF resp.kind \in RequestExceptions
           THEN CpdlFails(resp.kind)
           ELSE IF resp.kind = "no_keys"
           THEN CpdlEnds(<<>>)
           ELSE IF \E k \in 1..Len(MappedPages(resp.pages)) :
                       ~MappedPages(resp.pages)[k].is_object
           THEN CpdlFails("AttributeError")
           ELSE CpdlEnds([k \in 1..Len(MappedPages(resp.pages)) |->
                             PageRecord(MappedPages(resp.pages)[k], params)])
    /\ UNCHANGED <<calls, page_titles, parse_vars, api_vars, loop_vars>>

----------------------------------------------------------------------------
(* Inputs *)

ExampleCapriccio ==
    <<"P","o","s","s","i","b","l","e"," ","p","i","e","c","e","s"," ","f","o",
      "r"," ","C","a","p","r","i","c","c","i","o",":"," ","S","A","T","B"," ",
      "t","h","a","t"," ","u","s","e"," ","o","v","e","r","t","o","n","e"," ",
      "s","i","n","g","i","n","g","."," ","A","n","d"," ","t","h","a","t"," ",
      "a","r","e"," ","o","n"," ","t","h","e"," ","S","p","r","i","n","g"," ",
      "E","a","r","t","h"," ","t","h","e","m","e",".">>

ExampleRhapsody ==
    <<"P","o","s","s","i","b","l","e"," ","T","B"," ","p","i","e","c","e","s",
      " ","t","h","a","t"," ","a","r","e"," ","o","n"," ","t","h","e"," ","E",
      "a","r","t","h"," ","t","h","e","m","e"," ","f","o","r"," ","R","h","a",
      "p","s","o","d","y","."," ","Y","o","u"," ","c","o","u","l","d"," ","a",
      "d","d"," ","\"","b","e","g","i","n","n","i","n","g"," ","T","e","n",
      "o","r","-","B","a","s","s"," ","C","h","o","i","r","\""," ","t","o",
      " ","t","h","e"," ","s","e","a","r","c","h",".">>

ExampleNature ==
    <<"F","i","n","d"," ","S","S","A"," ","p","i","e","c","e","s"," ","a","b",
      "o","u","t"," ","n","a","t","u","r","e"," ","f","o","r"," ","i","n","t",
      "e","r","m","e","d","i","a","t","e"," ","c","h","o","i","r",".">>

Examples == {ExampleCapriccio, ExampleRhapsody, ExampleNature}

RECURSIVE Concat(_)
\* the fragments of a sequence, one after the other
Concat(fs) == IF fs = <<>> THEN <<>> ELSE Head(fs) \o Concat(Tail(fs))

\* the texts made of at most MaxFrags fragments of F
TextsOf(F) == {Concat(fs) : fs \in UNION {[1..n -> F] : n \in 0..MaxFrags}}

VoicingFrags ==
    {SATB, TB, TTBB, SSA, SSAA, SAB, <<"t","b">>, <<"D">>, <<" ">>, <<"-">>,
     <<"t","e","n","o","r">>, <<"B","a","s","s">>}

ThemeFrags ==
    {Spring, Earth, <<"t","h","e","m","e">>, <<" ">>, <<"x">>,
     <<"s","p","r","i","n","g"," ","e","a","r","t","h">>}

QuoteFrags ==
    {<<QUOTE>>, <<QUOTE, QUOTE>>, <<QUOTE, "a", QUOTE>>,
     <<QUOTE, "B", ",", " ", "c", "!", QUOTE>>,
     <<QUOTE, "c","h","o","i","r", QUOTE>>, <<" ">>, <<"x">>, pieces}

Rhapsody == <<"R","h","a","p","s","o","d","y">>

\* one word, or none, for each of voicing, theme and technique
StructuredTexts ==
    {str_join(SPACE, SelectSeq(<<v, t, k>>, LAMBDA w : w # <<>>)) :
        v \in {<<>>, SATB, TB, TTBB, SSA, SSAA, SAB},
        t \in {<<>>, SpringEarth, Earth, Spring},
        k \in {<<>>, overtone_singing}}

\* the instructions parse is applied to
Instructions ==
    Examples \cup StructuredTexts \cup TextsOf(VoicingFrags)
        \cup TextsOf(ThemeFrags) \cup TextsOf(QuoteFrags)

\* the SearchParameters records search is applied to
ParamRecords ==
    {[voicing |-> v, theme |-> t, technique |-> k, skill_level |-> l,
      ensemble_name |-> e[1], additional_keywords |-> e[2]] :
        v \in {None, SATB, TB},
        t \in {None, SpringEarth, Earth},
        k \in {None, overtone_singing, <<"v","i","b","r","a","t","o">>},
        l \in {None, beginning},
        e \in {<<None, <<>> >>,
               <<Rhapsody, << <<"b","e","g","i","n","n","i","n","g"," ","T","B">> >> >>}}

\* the modes: the three the client knows and two it does not
ApiTypes == {"cpdl", "web_search", "openai", "mock", "local"}

ApiKeys == {None, <<"key">>}

\* the lines the interactive loop may be given
InputLines ==
    { <<>>, <<" "," ">>,
      <<"q","u","i","t">>, <<" ","Q","u","i","t"," ">>, <<"e","x","i","t">>,
      <<"q">>, <<"q","u","i","t"," ","x">>,
      <<"T","B"," ","E","a","r","t","h">>,
      <<" ","o","v","e","r","t","o","n","e"," ","s","i","n","g","i","n","g">> }

EOF == <<"<EOF>">>

\* no dictionary has been returned yet
NoResult == [instruction |-> None, parsed_parameters |-> None, result_count |-> 0]

\* the dictionary process_instruction returns once search has returned
process_instruction_result ==
    [instruction |-> instruction, parsed_parameters |-> params,
     result_count |-> Len(results)]

----------------------------------------------------------------------------
(* InstructionParser.parse applied to an instruction, and to the structured
   part of the query built from its result *)

InitParse ==
    /\ pc = "parse"
    /\ instruction \in Instructions
    /\ params = SearchParameters
    /\ reparsed = SearchParameters
    /\ api_type = "cpdl"
    /\ api_key = None
    /\ REQUESTS_AVAILABLE = TRUE
    /\ calls = <<>>
    /\ page_titles = <<>>
    /\ page_data = <<>>
    /\ results = <<>>
    /\ raised = NoException
    /\ diagnostics = <<>>
    /\ line = None
    /\ prompts = 0
    /\ processed = 0
    /\ reported = 0
    /\ interrupted = FALSE
    /\ result = NoResult

Parse ==
    /\ pc = "parse"
    /\ params' = parse(instruction)
    /\ pc' = "parsed"
    /\ UNCHANGED <<instruction, reparsed, api_vars, search_vars, loop_vars>>

Requery ==
    /\ pc = "parsed"
    /\ reparsed' = parse(StructuredQuery(params))
    /\ pc' = "requeried"
    /\ UNCHANGED <<instruction, params, api_vars, search_vars, loop_vars>>

NextParse == Parse \/ Requery

SpecParse == InitParse /\ [][NextParse]_vars

----------------------------------------------------------------------------
(* SheetMusicAPI.search applied to a SearchParameters record *)

InitSearch ==
    /\ pc = "search"
    /\ instruction = <<>>
    /\ params \in ParamRecords
    /\ reparsed = SearchParameters
    /\ api_type \in ApiTypes
    /\ api_key \in ApiKeys
    /\ REQUESTS_AVAILABLE \in BOOLEAN
    /\ calls = <<>>
    /\ page_titles = <<>>
    /\ page_data = <<>>
    /\ results = <<>>
    /\ raised = NoException
    /\ diagnostics = <<>>
    /\ line = None
    /\ prompts = 0
    /\ processed = 0
    /\ reported = 0
    /\ interrupted = FALSE
    /\ result = NoResult

NextSearch == Search \/ SearchCallReturns \/ DetailCallReturns

SpecSearch == InitSearch /\ [][NextSearch]_vars

----------------------------------------------------------------------------
(* One MusicFinderBot given several instructions in turn *)

\* a bot is constructed and nothing has been parsed: there is no record yet
InitBot ==
    /\ pc = "idle"
    /\ instruction = <<>>
    /\ params = [voicing |-> None, theme |-> None, technique |-> None,
                 skill_level |-> None, ensemble_name |-> None,
                 additional_keywords |-> <<>>]
    /\ reparsed = params
    /\ api_type \in ApiTypes
    /\ api_key \in ApiKeys
    /\ REQUESTS_AVAILABLE \in BOOLEAN
    /\ calls = <<>>
    /\ page_titles = <<>>
    /\ page_data = <<>>
    /\ results = <<>>
    /\ raised = NoException
    /\ diagnostics = <<>>
    /\ line = None
    /\ prompts = 0
    /\ processed = 0
    /\ reported = 0
    /\ interrupted = FALSE
    /\ result = NoResult

\* process_instruction is called: the instruction is parsed into a new record
\* and the record is handed to search
ProcessInstruction ==
    /\ pc = "idle"
    /\ processed < MaxInstructions
    /\ \E text \in Examples :
        /\ instruction' = text
        /\ params' = parse(text)
    /\ processed' = processed + 1
    /\ pc' = "search"
    /\ UNCHANGED <<reparsed, api_vars, search_vars, line, prompts, reported,
                   interrupted, result>>

\* search has returned: process_instruction returns its dictionary, and what
\* the call of search held is gone
ReturnResult ==
    /\ pc = "print"
    /\ result' = process_instruction_result
    /\ pc' = "idle"
    /\ calls' = <<>>
    /\ page_titles' = <<>>
    /\ page_data' = <<>>
    /\ results' = <<>>
    /\ diagnostics' = <<>>
    /\ UNCHANGED <<parse_vars, api_vars, raised, line, prompts, processed,
                   reported, interrupted>>

NextBot ==
    \/ ProcessInstruction
    \/ Search
    \/ SearchCallReturns
    \/ DetailCallReturns
    \/ ReturnResult

SpecBot == InitBot /\ [][NextBot]_vars

----------------------------------------------------------------------------
(* interactive_bot.main *)

\* quit_words without the one-letter form
quit_words_long == << <<"q","u","i","t">>, <<"e","x","i","t">> >>

quit_words == << <<"q","u","i","t">>, <<"e","x","i","t">>, <<"q">> >>

\* the bot as main constructs it: without a credential the mode is
\* "web_search", with one the mode is whatever was given
Init ==
    /\ pc = "input"
    /\ instruction = <<>>
    /\ params = SearchParameters
    /\ reparsed = SearchParameters
    /\ \/ api_key = None /\ api_type = "web_search"
       \/ api_key \in ApiKeys \ {None} /\ api_type \in ApiTypes
    /\ REQUESTS_AVAILABLE \in BOOLEAN
    /\ calls = <<>>
    /\ page_titles = <<>>
    /\ page_data = <<>>
    /\ results = <<>>
    /\ raised = NoException
    /\ diagnostics = <<>>
    /\ line = None
    /\ prompts = 0
    /\ processed = 0
    /\ reported = 0
    /\ interrupted = FALSE
    /\ result = NoResult

\* the positions inside process_instruction and the printing of its result
Processing == {"search", "search_call", "detail_call", "print", "raised"}

\* what the loop does with the stripped line: "continue", "break" or "process"
LineVerdict(text) ==
    IF text = <<>> THEN "continue"
    ELSE IF InList(str_lower(text), quit_words) THEN "break"
    ELSE "process"

\* input() gives a line; an empty one is skipped, a quit word ends the loop,
\* any other is parsed and handed to search
ReadLine ==
    /\ pc = "input"
    /\ prompts < MaxPrompts
    /\ \E l \in InputLines :
        LET text == str_strip(l)
        IN  /\ line' = l
            /\ instruction' = text
            /\ IF LineVerdict(text) = "continue"
               THEN pc' = "input" /\ UNCHANGED <<params, processed>>
               ELSE IF LineVerdict(text) = "break"
               THEN pc' = "done" /\ UNCHANGED <<params, processed>>
               ELSE /\ params' = parse(text)
                    /\ processed' = processed + 1
                    /\ pc' = "search"
    /\ prompts' = prompts + 1
    /\ UNCHANGED <<reparsed, api_vars, search_vars, reported, interrupted, result>>

\* input() raises (end of file): the loop reports it and asks again
ReadFails ==
    /\ pc = "input"
    /\ prompts < MaxPrompts
    /\ line' = EOF
    /\ prompts' = prompts + 1
    /\ reported' = reported + 1
    /\ pc' = "input"
    /\ UNCHANGED <<parse_vars, api_vars, search_vars, processed, interrupted, result>>

\* a KeyboardInterrupt arrives inside the try block
Interrupt ==
    /\ pc \in {"input"} \cup Processing
    /\ interrupted' = TRUE
    /\ pc' = "done"
    /\ UNCHANGED <<parse_vars, api_vars, search_vars, line, prompts, processed, reported, result>>

\* the result is formatted and printed, or the failure of this iteration is
\* reported; either way the loop asks again, and what the finished call of
\* search held is gone
EndIteration ==
    /\ pc \in {"print", "raised"}
    /\ \E printed \in BOOLEAN :
        reported' = IF pc = "raised" \/ ~printed THEN reported + 1 ELSE reported
    /\ pc' = "input"
    /\ calls' = <<>>
    /\ page_titles' = <<>>
    /\ page_data' = <<>>
    /\ results' = <<>>
    /\ raised' = NoException
    /\ diagnostics' = <<>>
    /\ UNCHANGED <<parse_vars, api_vars, line, prompts, processed, interrupted, result>>

Next ==
    \/ ReadLine
    \/ ReadFails
    \/ Interrupt
    \/ Search
    \/ SearchCallReturns
    \/ DetailCallReturns
    \/ EndIteration

Spec == Init /\ [][Next]_vars

----------------------------------------------------------------------------
(* The loop on an input that ends: once input() has met the end of the input
   it raises EOFError at every later call *)

EOFError == "EOFError"

\* input() gives a line; the end of the input has not been met
ReadOpen == line # EOF /\ ReadLine

\* input() raises EOFError: control goes to the handlers of the try block
InputRaises ==
    /\ pc = "input"
    /\ line' = EOF
    /\ raised' = EOFError
    /\ pc' = "raised"
    /\ prompts' = IF prompts < MaxPrompts THEN prompts + 1 ELSE prompts
    /\ UNCHANGED <<parse_vars, api_vars, calls, page_titles, page_data, results,
                   diagnostics, processed, reported, interrupted, result>>

\* except Exception: the EOFError is reported and the loop asks again
ReportEOFError ==
    /\ pc = "raised"
    /\ raised = EOFError
    /\ reported' = IF reported < MaxPrompts THEN reported + 1 ELSE reported
    /\ raised' = NoException
    /\ pc' = "input"
    /\ UNCHANGED <<parse_vars, api_vars, calls, page_titles, page_data, results,
                   diagnostics, line, prompts, processed, interrupted, result>>

\* the result of a processed instruction is printed
PrintResult == raised = NoException /\ EndIteration

\* the steps the program takes by itself; the remote calls return because of
\* their timeout
ProgramStep ==
    \/ ReadOpen
    \/ InputRaises
    \/ ReportEOFError
    \/ Search
    \/ SearchCallReturns
    \/ DetailCallReturns
    \/ PrintResult

NextExhausted == ProgramStep \/ Interrupt

\* the program keeps running; a keyboard interrupt may never come
SpecExhausted == Init /\ [][NextExhausted]_vars /\ WF_vars(ProgramStep)

----------------------------------------------------------------------------
(* Properties of SheetMusicAPI.search (SpecSearch) *)

\* C1: search returns normally with at least one record and never raises,
\* in every mode, with or without a credential, for every SearchParameters
\* record and every outcome of the remote calls.
C1_SearchTotal ==
    /\ pc # "raised"
    /\ raised = NoException
    /\ pc = "print" => Len(results) >= 1

\* search has returned for the all-empty record after mapping a page failed
C1_Witness ==
    /\ pc = "print"
    /\ api_type = "cpdl"
    /\ params = SearchParameters
    /\ diagnostics = <<"processing_error">>
    /\ Len(calls) = 2
    /\ Len(results) >= 1

\* the records are live catalog records
IsLive(rs) ==
    /\ rs # <<>>
    /\ \A k \in 1..Len(rs) : rs[k].source = CPDL_SOURCE

\* C2: whenever search does not return live catalog records, its result is
\* the one local-fallback mode gives for the same SearchParameters: in
\* catalog mode after every failure and every response without a mappable
\* page, and in the generic-web and generative modes always.
C2_FallbackIdentical ==
    pc = "print" =>
        /\ ~IsLive(results) => results = mock_search(params)
        /\ diagnostics # <<>> => results = mock_search(params)
        /\ api_type # "cpdl" => results = mock_search(params)
        /\ (Len(calls) = 2 /\ IsLive(results)) \/ results = mock_search(params)

\* the detail call failed, and search returned the two canned records
C2_Witness ==
    /\ pc = "print"
    /\ api_type = "cpdl"
    /\ Len(calls) = 2
    /\ diagnostics = <<"request_error">>
    /\ Len(results) = 2
    /\ results = mock_search(params)

\* C10: in catalog mode the technique "overtone singing" is kept out of the
\* catalog search: the search string of the first remote call holds neither
\* the word "overtone" nor the word "singing", whatever the other fields.
C10_OvertoneExcluded ==
    (Len(calls) >= 1 /\ params.technique = overtone_singing) =>
        LET words == str_split(str_lower(calls[1].srsearch))
        IN  /\ ~InList(<<"o","v","e","r","t","o","n","e">>, words)
            /\ ~InList(<<"s","i","n","g","i","n","g">>, words)

\* the first candidates of a list, five at most, in the order given
FirstFive(titles) == [k \in 1..(IF Len(titles) < 5 THEN Len(titles) ELSE 5) |-> titles[k]]

\* the remote calls issued so far are a search call, or a search call followed
\* by a detail call for the first five candidates the search call returned
CallsInOrder ==
    /\ Len(calls) <= 2
    /\ Len(calls) >= 1 => calls[1].request = "search"
    /\ Len(calls) = 2 =>
          /\ calls[2].request = "detail"
          /\ page_titles # <<>>
          /\ calls[2].titles = str_join(<<"|">>, FirstFive(page_titles))
          /\ calls[2].srlimit = Len(FirstFive(page_titles))

\* C11: in catalog mode a call of search issues at most two remote calls, the
\* search call first and the detail call second; the detail call follows a
\* search call that succeeded with at least one candidate and names the first
\* five candidates at most, in order; nothing is requested after a failed call
\* or after a search call without candidates.
C11_TwoCallsInOrder ==
    [][ /\ CallsInOrder'
        /\ calls' # calls =>
              /\ Len(calls') = Len(calls) + 1
              /\ api_type = "cpdl"
              /\ diagnostics' = <<>>
              /\ raised' = NoException
              /\ pc \in {"search", "search_call"}
              /\ pc = "search_call" => page_titles' # <<>>
        /\ (diagnostics # <<>> \/ raised # NoException) => calls' = calls
        /\ (pc = "search_call" /\ page_titles' = <<>>) => calls' = calls
      ]_vars

\* the search call returned more than five candidates and the detail call has
\* been issued
C11_Witness ==
    /\ pc = "detail_call"
    /\ Len(calls) = 2
    /\ Len(page_titles) > 5

----------------------------------------------------------------------------
(* Properties of InstructionParser.parse (SpecParse) *)

Parsed == pc \in {"parsed", "requeried"}

RECURSIVE Runs(_)
\* the text cut into its maximal runs of word characters and of other
\* characters, in order
Runs(s) ==
    LET n == RunLen(s, 1, WordChars, s[1] \in WordChars)
    IN  IF s = <<>> THEN <<>>
        ELSE <<SubSeq(s, 1, n)>> \o Runs(SubSeq(s, n + 1, Len(s)))

\* the keyword occurs in the text as a whole word, letter case aside: its
\* runs are consecutive runs of the text
OccursAsWholeWord(keyword, text) ==
    LET K == Runs(str_lower(keyword))
        T == Runs(str_lower(text))
    IN  \E i \in 0..(Len(T) - Len(K)) : \A j \in 1..Len(K) : T[i + j] = K[j]

\* the voicing keywords in the order of the table, each with its tag
VoicingKeywords ==
    << <<SATB, SATB>>, <<TB, TB>>, <<TTBB, TTBB>>, <<SSA, SSA>>, <<SSAA, SSAA>>,
       <<SAB, SAB>>,
       << <<"t","e","n","o","r","-","b","a","s","s">>, TB>>,
       << <<"t","e","n","o","r"," ","b","a","s","s">>, TB>> >>

\* the tag of the first keyword of the table that occurs as a whole word
ExpectedVoicing(text) ==
    LET hits == {k \in 1..Len(VoicingKeywords) :
                    OccursAsWholeWord(VoicingKeywords[k][1], text)}
    IN  IF hits = {} THEN None
        ELSE VoicingKeywords[CHOOSE k \in hits : \A h \in hits : k <= h][2]

\* C3: parse sets voicing to the tag of the first entry of the ordered table
\* (SATB, TB, TTBB, SSA, SSAA, SAB, tenor-bass variants) that occurs in the
\* instruction as a whole word, letter case aside, and leaves it unset when
\* none does; a keyword inside a longer word sets nothing ("TBD" gives no
\* voicing, "TTBB" gives TTBB, "SSAA" gives SSAA).
C3_VoicingWholeWord ==
    Parsed =>
        /\ params.voicing = ExpectedVoicing(instruction)
        /\ instruction = <<"T","B","D">> => params.voicing = None
        /\ instruction = TTBB => params.voicing = TTBB
        /\ instruction = SSAA => params.voicing = SSAA

\* "TTBB SATB" has been parsed: the table order decided, not the position
C3_Witness ==
    /\ Parsed
    /\ instruction = TTBB \o SPACE \o SATB
    /\ params.voicing = SATB

\* the phrase occurs in the text, letter case aside
OccursIn(phrase, text) ==
    \E i \in 1..Len(text) : \E j \in i..Len(text) :
        str_lower(SubSeq(text, i, j)) = str_lower(phrase)

\* C4: theme is the tag of the first of "Spring Earth", "Earth theme",
\* "Earth", "Spring" that occurs in the instruction, letter case aside, and
\* is unset when none occurs; an instruction that contains "Spring Earth"
\* gets the theme "Spring Earth", never "Earth" or "Spring".
C4_ThemeLongestFirst ==
    Parsed =>
        /\ params.theme =
              IF OccursIn(SpringEarth, instruction) THEN SpringEarth
              ELSE IF OccursIn(Earth, instruction) THEN Earth
              ELSE IF OccursIn(Spring, instruction) THEN Spring
              ELSE None
        /\ OccursIn(SpringEarth, instruction) => params.theme \notin {Earth, Spring}

\* "spring earth theme" has been parsed: all four phrases occur in it
C4_Witness ==
    /\ Parsed
    /\ instruction = <<"s","p","r","i","n","g"," ","e","a","r","t","h">>
                         \o SPACE \o <<"t","h","e","m","e">>
    /\ params.theme = SpringEarth

QuotedRhapsody ==
    <<"b","e","g","i","n","n","i","n","g"," ","T","e","n","o","r","-","B","a","s","s",
      " ","C","h","o","i","r">>

\* C5 as stated: the Rhapsody example parses to voicing TB, theme "Earth",
\* ensemble_name "Rhapsody" and additional_keywords holding the quoted text
\* and nothing else.
C5_RhapsodyAsStated ==
    (Parsed /\ instruction = ExampleRhapsody) =>
        /\ params.voicing = TB
        /\ params.theme = Earth
        /\ params.ensemble_name = Rhapsody
        /\ params.additional_keywords = <<QuotedRhapsody>>

\* C5, amended: the Rhapsody example parses to voicing TB, theme "Earth",
\* ensemble_name "Rhapsody" and additional_keywords holding the quoted text
\* followed by the generic nouns found in the instruction: "choir", "piece",
\* "pieces".
C5_RhapsodyParsed ==
    (Parsed /\ instruction = ExampleRhapsody) =>
        /\ params.voicing = TB
        /\ params.theme = Earth
        /\ params.ensemble_name = Rhapsody
        /\ params.additional_keywords = <<QuotedRhapsody, choir, piece, pieces>>

\* the Rhapsody example has been parsed
C5_Witness ==
    /\ Parsed
    /\ instruction = ExampleRhapsody
    /\ Len(params.additional_keywords) = 4

RECURSIVE QuotedSubstrings(_, _, _)
\* the contents of the double-quoted substrings of s from position i on, in
\* order: the quotation marks pair up from the left, the first of a pair
\* opens and the second closes (open is the position of the opening mark,
\* 0 outside a quotation); an empty quotation has no content to list
QuotedSubstrings(s, i, open) ==
    IF i > Len(s) THEN <<>>
    ELSE IF s[i] # QUOTE THEN QuotedSubstrings(s, i + 1, open)
    ELSE IF open = 0 THEN QuotedSubstrings(s, i + 1, i)
    ELSE (IF i > open + 1 THEN <<SubSeq(s, open + 1, i - 1)>> ELSE <<>>)
             \o QuotedSubstrings(s, i + 1, 0)

GenericNouns == {choir, choral, piece, pieces}

\* C6: the first entries of additional_keywords are exactly the contents of
\* the instruction's double-quoted substrings, one entry each, in order of
\* appearance and character for character; the generic nouns come after.
C6_QuotedVerbatimFirst ==
    Parsed =>
        LET quoted == QuotedSubstrings(instruction, 1, 0)
            kw == params.additional_keywords
        IN  /\ Len(kw) >= Len(quoted)
            /\ SubSeq(kw, 1, Len(quoted)) = quoted
            /\ \A k \in (Len(quoted) + 1)..Len(kw) : kw[k] \in GenericNouns

\* C7: no string occurs twice in additional_keywords, also when a quoted
\* substring is repeated or equals a generic noun.
C7_KeywordsDistinct ==
    Parsed =>
        \A i \in 1..Len(params.additional_keywords) :
            \A j \in 1..Len(params.additional_keywords) :
                i # j => params.additional_keywords[i] # params.additional_keywords[j]

\* C8: parsing the voicing, theme and technique part of the query built from
\* a parsed record gives the same voicing, theme and technique back, unset
\* fields staying unset.
C8_StructuredRoundTrip ==
    pc = "requeried" =>
        /\ reparsed.voicing = params.voicing
        /\ reparsed.theme = params.theme
        /\ reparsed.technique = params.technique

\* a record with all three fields set has made the round trip
C8_Witness ==
    /\ pc = "requeried"
    /\ params.voicing = TB
    /\ params.theme = SpringEarth
    /\ params.technique = overtone_singing
    /\ reparsed.voicing = TB
    /\ reparsed.theme = SpringEarth
    /\ reparsed.technique = overtone_singing

----------------------------------------------------------------------------
(* Properties of the records built from catalog pages (SpecSearch) *)

\* the voicing tags InstructionParser.parse can give
ParserTags == {SATB, TB, TTBB, SSA, SSAA, SAB}

\* the voicing tags the catalog mapping looks for in an extract
CatalogTags == ParserTags \cup { <<"S","A">>, <<"T","T","B">> }

\* the words of the extract that are one of the tags, letter case aside, in
\* upper case and in the order of the text
TagWords(extract, tags) ==
    LET runs == Runs(extract)
    IN  SelectSeq([k \in 1..Len(runs) |-> str_upper(runs[k])], LAMBDA w : w \in tags)

\* the pages of the detail response that became records, and their extracts
RecordPages == SelectSeq(page_data, LAMBDA pg : pg.page_id # <<"-","1">>)

ExtractOfPage(k) ==
    IF RecordPages[k].extract = None THEN <<>> ELSE RecordPages[k].extract

\* search has returned records built from catalog pages
ReturnedLive == pc = "print" /\ IsLive(results) /\ Len(results) = Len(RecordPages)

\* C12 as stated: a record built from a catalog page has the voicing of the
\* parameters when that is set, else a tag of the parser's vocabulary (SATB,
\* TB, TTBB, SSA, SSAA, SAB) that is a word of the extract, or "Unknown" when
\* no such tag is a word of the extract.
C12_ParserVocabularyOnly ==
    (pc = "print" /\ IsLive(results)) =>
        /\ Len(results) = Len(RecordPages)
        /\ \A k \in 1..Len(results) :
              IF params.voicing # None /\ params.voicing # <<>>
              THEN results[k].voicing = params.voicing
              ELSE LET found == TagWords(ExtractOfPage(k), ParserTags)
                   IN  IF found = <<>> THEN results[k].voicing = Unknown
                       ELSE \E n \in 1..Len(found) : results[k].voicing = found[n]

\* C12 (amended): a record built from a catalog page has the voicing of the
\* parameters when that is set; else its voicing is the first word of the
\* extract that is, letter case aside, one of SATB, TB, TTBB, SSA, SSAA, SAB,
\* SA, TTB, in upper case, or "Unknown" when the extract has no such word.
C12_CatalogVocabulary ==
    (pc = "print" /\ IsLive(results)) =>
        /\ Len(results) = Len(RecordPages)
        /\ \A k \in 1..Len(results) :
              IF params.voicing # None /\ params.voicing # <<>>
              THEN results[k].voicing = params.voicing
              ELSE results[k].voicing =
                       LET found == TagWords(ExtractOfPage(k), CatalogTags)
                       IN  IF found = <<>> THEN Unknown ELSE found[1]

\* search has returned a record for a page whose extract names SA before a
\* tag of the parser, with no voicing in the parameters
C12_Witness ==
    /\ ReturnedLive
    /\ params.voicing = None
    /\ \E k \in 1..Len(results) :
          /\ results[k].voicing = <<"S","A">>
          /\ TagWords(ExtractOfPage(k), ParserTags) # <<>>

----------------------------------------------------------------------------
(* Properties of one bot given several instructions (SpecBot) *)

\* what a bot that has parsed nothing before returns for the instruction: the
\* list of keywords starts empty
FreshBotParameters(text) ==
    [voicing |-> ParseVoicing(text),
     theme |-> ParseTheme(text),
     technique |-> ParseTechnique(text),
     skill_level |-> ParseSkillLevel(text),
     ensemble_name |-> ParseEnsemble(text),
     additional_keywords |->
         AppendKeywords(findall_quoted(text, 1), str_lower(text), 1)]

\* every keyword of the list is a piece of the text, or of the text in lower
\* case
KeywordsFrom(keywords, text) ==
    \A k \in 1..Len(keywords) :
        str_contains(keywords[k], text) \/ str_contains(keywords[k], str_lower(text))

\* the positions between the parsing of an instruction and the return of
\* process_instruction
InsideProcessInstruction == {"search", "search_call", "detail_call", "print"}

\* C13: no state carries over between instructions: the parameters parsed
\* for each instruction of a sequence are those a fresh bot gives for that
\* instruction alone, with no keyword of an earlier instruction;
\* build_search_query and search leave the record unchanged; and the
\* parsed_parameters returned are the values as parsed.
C13_NoCarryOver ==
    [][ /\ (instruction' # instruction \/ params' # params) =>
              /\ pc = "idle" /\ pc' = "search"
              /\ params' = FreshBotParameters(instruction')
              /\ KeywordsFrom(params'.additional_keywords, instruction')
        /\ (pc \in InsideProcessInstruction /\ pc' \in InsideProcessInstruction) =>
              params' = params /\ instruction' = instruction
        /\ result' # result =>
              /\ pc = "print"
              /\ result'.instruction = instruction
              /\ result'.parsed_parameters = params
              /\ result'.result_count = Len(results)
      ]_vars

\* the second instruction has been processed, after a different instruction
\* whose returned parameters held keywords it does not have
C13_Witness ==
    /\ pc = "print"
    /\ processed = 2
    /\ result # NoResult
    /\ result.instruction # instruction
    /\ \E k \in 1..Len(result.parsed_parameters.additional_keywords) :
          ~InList(result.parsed_parameters.additional_keywords[k],
                  params.additional_keywords)

----------------------------------------------------------------------------
(* Properties of the interactive loop (Spec) *)

RECURSIVE Trimmed(_)
\* the text without the blanks at its two ends
Trimmed(s) ==
    IF s = <<>> THEN s
    ELSE IF Head(s) \in Whitespace THEN Trimmed(Tail(s))
    ELSE IF s[Len(s)] \in Whitespace THEN Trimmed(SubSeq(s, 1, Len(s) - 1))
    ELSE s

\* the line, trimmed and lower-cased, is "quit", "exit" or "q"
IsQuitLine(l) ==
    Trimmed(str_lower(l)) \in {<<"q","u","i","t">>, <<"e","x","i","t">>, <<"q">>}

\* this step is an input() call that gave a line
GotLine == pc = "input" /\ prompts' = prompts + 1 /\ line' # EOF

\* this step is an input() call that raised
GotFailure == pc = "input" /\ prompts' = prompts + 1 /\ line' = EOF

\* C9: the loop ends exactly when the trimmed, lower-cased line is "quit",
\* "exit" or "q", or when a keyboard interrupt arrives; an empty line asks
\* again without processing; every other line is processed once and the
\* loop comes back to the prompt; a failure while reading or processing is
\* caught in its iteration, reported, and the loop asks again.
C9_LoopContract ==
    [][ /\ (pc # "done" /\ pc' = "done") =>
               \/ ~interrupted /\ interrupted'
               \/ GotLine /\ IsQuitLine(line')
        /\ (GotLine /\ IsQuitLine(line')) => pc' = "done"
        /\ (~interrupted /\ interrupted') => pc' = "done"
        /\ (GotLine /\ Trimmed(line') = <<>>) =>
               pc' = "input" /\ processed' = processed /\ reported' = reported
        /\ (GotLine /\ ~IsQuitLine(line') /\ Trimmed(line') # <<>>) =>
               /\ processed' = processed + 1
               /\ pc' = "search"
               /\ instruction' = Trimmed(line')
        /\ (pc \in Processing /\ interrupted' = interrupted) =>
               pc' \in Processing \cup {"input"} /\ processed' = processed
        /\ GotFailure =>
               pc' = "input" /\ reported' = reported + 1 /\ processed' = processed
        /\ reported' # reported =>
               reported' = reported + 1 /\ pc' = "input"
        /\ pc = "done" => pc' = "done"
      ]_vars

\* a read failed and was reported, a line was processed, a quit word ended
\* the loop
C9_Witness ==
    /\ pc = "done"
    /\ ~interrupted
    /\ reported >= 1
    /\ processed >= 1
    /\ IsQuitLine(line)

----------------------------------------------------------------------------
(* Properties of the loop on an input that ends (SpecExhausted) *)

\* C14: the loop ends once its input is exhausted: from the moment input()
\* has met the end of the input, the loop eventually reaches its end state
\* instead of repeating read, failure and report for ever.
C14_EndsOnExhaustedInput == (line = EOF) ~> (pc = "done")

====
